---- MODULE Spec2Model ----
(***************************************************************************)
(* Model of philschmid/deepspeed-sagemaker-example.                        *)
(*                                                                         *)
(*   src/ds_launcher.py      the in-container launcher: reads SM_NUM_GPUS, *)
(*                           SM_HOSTS and SM_CURRENT_HOST, computes the    *)
(*                           rank, parses the command line, builds the     *)
(*                           deepspeed command and runs it through the     *)
(*                           shell, waiting for it.                        *)
(*   src/sagemaker_launch.py the submitter: resolves the role, opens a     *)
(*                           session, builds the estimator and calls fit.  *)
(*                                                                         *)
(* Python strings are sequences of one-character strings, so that int(),   *)
(* json.loads(), the f-string formatting, ' '.join and argparse's prefix   *)
(* matching are computed and not assumed.  Python values are records       *)
(* [t |-> type, s |-> characters, n |-> integer, l |-> list items].        *)
(* print() (lines 36 and 46 of ds_launcher.py, 14-16 of the submitter)     *)
(* changes no state of the program and is not modelled.                    *)
(***************************************************************************)
EXTENDS Integers, Sequences, FiniteSets, TLC

\* Bound of the model: the longest command line (sys.argv[1:]) explored.
MaxArgs == 2

----------------------------------------------------------------------------
(* Python values *)

PyStr(chars) == [t |-> "str", s |-> chars, n |-> 0, l |-> <<>>]
PyInt(k) == [t |-> "int", s |-> <<>>, n |-> k, l |-> <<>>]
PyList(items) == [t |-> "list", s |-> <<>>, n |-> 0, l |-> items]
PyDict == [t |-> "dict", s |-> <<>>, n |-> 0, l |-> <<>>]
PyNone == [t |-> "none", s |-> <<>>, n |-> 0, l |-> <<>>]

\* a == b for the str and int values that occur as host identifiers
PyEq(a, b) == a.t = b.t /\ a.s = b.s /\ a.n = b.n /\ a.l = b.l

\* A local that has not been assigned yet.
Unset == [t |-> "unset", s |-> <<>>, n |-> 0, l |-> <<>>]

\* An environment variable: set to a string, or absent from os.environ.
EnvSet(chars) == [present |-> TRUE, val |-> chars]
EnvAbsent == [present |-> FALSE, val |-> <<>>]

----------------------------------------------------------------------------
(* Characters and strings *)

Digits == <<"0", "1", "2", "3", "4", "5", "6", "7", "8", "9">>

IsDigit(c) == \E d \in 1..Len(Digits) : Digits[d] = c

DigitVal(c) == (CHOOSE d \in 1..Len(Digits) : Digits[d] = c) - 1

StartsWith(str, prefix) ==
    /\ Len(prefix) <= Len(str)
    /\ SubSeq(str, 1, Len(prefix)) = prefix

\* str.find(c): the 1-based position of the first c in str, 0 when there is none
FindChar(str, c) ==
    IF \E i \in 1..Len(str) : str[i] = c
    THEN CHOOSE i \in 1..Len(str) : str[i] = c /\ \A j \in 1..(i - 1) : str[j] # c
    ELSE 0

----------------------------------------------------------------------------
(* int(), str() and json.loads() *)

Ok(v) == [ok |-> TRUE, val |-> v]
Raised == [ok |-> FALSE, val |-> PyNone]

RECURSIVE DigitsValue(_)
\* the number written by a non-empty string of decimal digits
DigitsValue(chars) ==
    IF Len(chars) = 1
    THEN DigitVal(chars[1])
    ELSE 10 * DigitsValue(SubSeq(chars, 1, Len(chars) - 1)) + DigitVal(chars[Len(chars)])

\* int(x) for an int and for a string without sign, blanks or underscores:
\* the value of a non-empty digit string, ValueError for any other string.
PyIntOf(x) ==
    IF x.t = "int" THEN Ok(x)
    ELSE IF x.t = "str" /\ Len(x.s) > 0 /\ \A i \in 1..Len(x.s) : IsDigit(x.s[i])
    THEN Ok(PyInt(DigitsValue(x.s)))
    ELSE Raised

RECURSIVE DecStr(_)
\* str(k) for k >= 0
DecStr(k) ==
    IF k < 10 THEN <<Digits[k + 1]>>
    ELSE DecStr(k \div 10) \o <<Digits[(k % 10) + 1]>>

\* What f"{x}" inserts for x: a string, an int, the empty list or None.
Format(x) ==
    IF x.t = "str" THEN x.s
    ELSE IF x.t = "int" THEN DecStr(x.n)
    ELSE IF x.t = "list" /\ Len(x.l) = 0 THEN <<"[", "]">>
    ELSE <<"N", "o", "n", "e">>

RECURSIVE SkipWs(_, _)
\* the first position at or after i that holds no blank
SkipWs(text, i) ==
    IF i <= Len(text) /\ text[i] = " " THEN SkipWs(text, i + 1) ELSE i

RECURSIVE ScanDigits(_, _)
\* the first position at or after i that holds no digit
ScanDigits(text, i) ==
    IF i <= Len(text) /\ IsDigit(text[i]) THEN ScanDigits(text, i + 1) ELSE i

RECURSIVE ScanQuote(_, _)
\* the position of the first double quote at or after i, 0 when there is none
ScanQuote(text, i) ==
    IF i > Len(text) THEN 0
    ELSE IF text[i] = "\"" THEN i
    ELSE ScanQuote(text, i + 1)

NoParse == [ok |-> FALSE, val |-> PyNone, next |-> 0]

\* One JSON value at position i: a string without escapes, or a number
\* without sign, fraction or exponent (a leading zero only as "0").
JsonValue(text, i) ==
    IF i > Len(text) THEN NoParse
    ELSE IF text[i] = "\""
    THEN LET j == ScanQuote(text, i + 1)
         IN  IF j = 0 THEN NoParse
             ELSE [ok |-> TRUE, val |-> PyStr(SubSeq(text, i + 1, j - 1)), next |-> j + 1]
    ELSE IF IsDigit(text[i])
    THEN LET j == ScanDigits(text, i)
         IN  IF text[i] = "0" /\ j > i + 1 THEN NoParse
             ELSE [ok |-> TRUE, val |-> PyInt(DigitsValue(SubSeq(text, i, j - 1))), next |-> j]
    ELSE NoParse

RECURSIVE JsonItems(_, _, _)
\* The items of an array from position i, which follows "[" or ",".
JsonItems(text, i, items) ==
    LET r == JsonValue(text, SkipWs(text, i))
        k == SkipWs(text, r.next)
    IN  IF ~r.ok \/ k > Len(text) THEN NoParse
        ELSE IF text[k] = "," THEN JsonItems(text, k + 1, Append(items, r.val))
        ELSE IF text[k] = "]"
        THEN [ok |-> TRUE, val |-> PyList(Append(items, r.val)), next |-> k + 1]
        ELSE NoParse

\* json.loads(text) for the documents the model draws: the empty object and
\* arrays of strings and numbers.  Raised stands for json.JSONDecodeError.
JsonLoads(text) ==
    LET i == SkipWs(text, 1)
        j == SkipWs(text, i + 1)
        r == IF i > Len(text) THEN NoParse
             ELSE IF text[i] = "{"
             THEN IF j <= Len(text) /\ text[j] = "}"
                  THEN [ok |-> TRUE, val |-> PyDict, next |-> j + 1]
                  ELSE NoParse
             ELSE IF text[i] = "["
             THEN IF j <= Len(text) /\ text[j] = "]"
                  THEN [ok |-> TRUE, val |-> PyList(<<>>), next |-> j + 1]
                  ELSE JsonItems(text, i + 1, <<>>)
             ELSE NoParse
    IN  IF r.ok /\ SkipWs(text, r.next) > Len(text) THEN Ok(r.val) ELSE Raised

----------------------------------------------------------------------------
(* hosts.index(current_host) *)

RECURSIVE IndexFromOneBased(_, _, _)
\* Faulty variant of IndexFrom: the position counted from one.
IndexFromOneBased(items, x, i) ==
    IF i > Len(items) THEN Raised
    ELSE IF PyEq(items[i], x) THEN Ok(PyInt(i))
    ELSE IndexFromOneBased(items, x, i + 1)

RECURSIVE IndexFromFind(_, _, _)
\* Faulty variant of IndexFrom: -1 for an item that is not there, as str.find does.
IndexFromFind(items, x, i) ==
    IF i > Len(items) THEN Ok(PyInt(-1))
    ELSE IF PyEq(items[i], x) THEN Ok(PyInt(i - 1))
    ELSE IndexFromFind(items, x, i + 1)

RECURSIVE IndexFrom(_, _, _)
\* list.index scans from the front: the zero-based position of the first
\* item equal to x at or after position i (1-based), ValueError when none.
IndexFrom(items, x, i) ==
    IF i > Len(items) THEN Raised
    ELSE IF PyEq(items[i], x) THEN Ok(PyInt(i - 1))
    ELSE IndexFrom(items, x, i + 1)

\* Faulty variant of HostsIndex: anything that is no list counts as a single node.
HostsIndexSingleNode(hs, x) ==
    IF hs.t = "list" THEN IndexFrom(hs.l, x, 1) ELSE Ok(PyInt(0))

\* hosts.index(current_host): a list is scanned; a dict (the value of the
\* default "{}") has no attribute index, which raises AttributeError.
HostsIndex(hs, x) ==
    IF hs.t = "list" THEN IndexFrom(hs.l, x, 1) ELSE Raised

----------------------------------------------------------------------------
(* parse_args: ArgumentParser with the one option --training_script, and   *)
(* the -h/--help option every ArgumentParser adds; parse_known_args.       *)

OptHelpShort == <<"-", "h">>
OptHelp == <<"-", "-", "h", "e", "l", "p">>
OptTrainingScript ==
    <<"-", "-", "t", "r", "a", "i", "n", "i", "n", "g", "_", "s", "c", "r", "i", "p", "t">>

\* parser._option_string_actions: option string -> action
OptionStrings == {OptHelpShort, OptHelp, OptTrainingScript}
ActionOf(option) == IF option = OptTrainingScript THEN "store" ELSE "help"

Positional == [kind |-> "A", action |-> "none", option |-> <<>>, explicit |-> EnvAbsent]
\* the word "--", after which every word is a positional
DashDash == [kind |-> "-", action |-> "none", option |-> <<>>, explicit |-> EnvAbsent]
\* an option_tuple (action, option_string, explicit_arg)
Optional(action, option, explicit) ==
    [kind |-> "O", action |-> action, option |-> option, explicit |-> explicit]
Ambiguous == [kind |-> "error", action |-> "none", option |-> <<>>, explicit |-> EnvAbsent]

\* ArgumentParser._get_option_tuples with allow_abbrev (the default): the
\* options the argument abbreviates, each with its explicit argument.
OptionTuples(arg) ==
    LET eq == FindChar(arg, "=")
    IN  IF arg[2] = "-"
        THEN LET prefix == IF eq > 0 THEN SubSeq(arg, 1, eq - 1) ELSE arg
                 explicit == IF eq > 0 THEN EnvSet(SubSeq(arg, eq + 1, Len(arg)))
                             ELSE EnvAbsent
             IN  {Optional(ActionOf(o), o, explicit) :
                      o \in {o \in OptionStrings : StartsWith(o, prefix)}}
        ELSE {Optional(ActionOf(o), o, EnvSet(SubSeq(arg, 3, Len(arg)))) :
                  o \in {o \in OptionStrings : o = SubSeq(arg, 1, 2)}}
             \cup {Optional(ActionOf(o), o, EnvAbsent) :
                  o \in {o \in OptionStrings : o # SubSeq(arg, 1, 2) /\ StartsWith(o, arg)}}

\* parser._negative_number_matcher, '^-\d+$|^-\d*\.\d+$' (ASCII digits, no
\* line break in the word)
IsNegativeNumber(arg) ==
    /\ Len(arg) >= 2
    /\ arg[1] = "-"
    /\ \/ \A i \in 2..Len(arg) : IsDigit(arg[i])
       \/ \E dot \in 2..(Len(arg) - 1) :
              /\ arg[dot] = "."
              /\ \A i \in 2..(dot - 1) : IsDigit(arg[i])
              /\ \A i \in (dot + 1)..Len(arg) : IsDigit(arg[i])

\* ArgumentParser._parse_optional: how one argument string is classified.
\* (No option of this parser looks like a negative number.)
ParseOptional(arg) ==
    LET eq == FindChar(arg, "=")
        tuples == OptionTuples(arg)
    IN  IF Len(arg) = 0 THEN Positional
        ELSE IF arg[1] # "-" THEN Positional
        ELSE IF arg \in OptionStrings THEN Optional(ActionOf(arg), arg, EnvAbsent)
        ELSE IF Len(arg) = 1 THEN Positional
        ELSE IF eq > 0 /\ SubSeq(arg, 1, eq - 1) \in OptionStrings
        THEN Optional(ActionOf(SubSeq(arg, 1, eq - 1)), SubSeq(arg, 1, eq - 1),
                      EnvSet(SubSeq(arg, eq + 1, Len(arg))))
        ELSE IF Cardinality(tuples) > 1 THEN Ambiguous
        ELSE IF Cardinality(tuples) = 1 THEN CHOOSE o \in tuples : TRUE
        ELSE IF IsNegativeNumber(arg) THEN Positional
        ELSE IF \E i \in 1..Len(arg) : arg[i] = " " THEN Positional
        ELSE Optional("none", arg, EnvAbsent)

\* the position of the first word "--", 0 when there is none
FirstDashDash(args) ==
    IF \E i \in 1..Len(args) : args[i] = <<"-", "-">>
    THEN CHOOSE i \in 1..Len(args) :
             args[i] = <<"-", "-">> /\ \A j \in 1..(i - 1) : args[j] # <<"-", "-">>
    ELSE 0

\* The first loop of _parse_known_args: the words before the first "--" are
\* classified by _parse_optional, the words after it are positionals.
Classify(args, i) ==
    LET dd == FirstDashDash(args)
    IN  IF dd > 0 /\ i = dd THEN DashDash
        ELSE IF dd > 0 /\ i > dd THEN Positional
        ELSE ParseOptional(args[i])

Parsed(script, extras) == [status |-> "ok", code |-> 0, script |-> script, extras |-> extras]
\* parser.exit(): SystemExit(0) after --help, SystemExit(2) after parser.error
ParserExit(code) == [status |-> "exit", code |-> code, script |-> PyNone, extras |-> <<>>]

\* _get_values for --training_script (nargs=None, type=str): a "--" among
\* the argument strings is removed first, which leaves the empty list.
StoredValue(word) == IF word = <<"-", "-">> THEN PyList(<<>>) ELSE PyStr(word)

RECURSIVE HelpFlags(_)
\* consume_optional on the explicit argument of -h, which takes none: its
\* characters are read as further one-dash flags; when all of them are
\* known (h) the help is printed and the parser exits with 0, else error.
HelpFlags(explicit) ==
    IF Len(explicit) = 0 THEN ParserExit(0)
    ELSE IF <<"-", explicit[1]>> \in OptionStrings
    THEN HelpFlags(Tail(explicit))
    ELSE ParserExit(2)

RECURSIVE ConsumeArgs(_, _, _, _)
\* The second loop of _parse_known_args from argument i on: a positional,
\* "--" or an unknown option goes to the extras; --help exits;
\* --training_script takes its explicit argument, or the next word if that
\* one is a positional (and not "--").
ConsumeArgs(args, i, script, extras) ==
    IF i > Len(args) THEN Parsed(script, extras)
    ELSE LET p == Classify(args, i)
         IN  IF p.kind # "O" \/ p.action = "none"
             THEN ConsumeArgs(args, i + 1, script, Append(extras, args[i]))
             ELSE IF p.action = "help"
             THEN IF ~p.explicit.present THEN ParserExit(0)
                  ELSE IF p.option[2] # "-" /\ Len(p.explicit.val) > 0
                  THEN HelpFlags(p.explicit.val)
                  ELSE ParserExit(2)
             ELSE IF p.explicit.present
             THEN ConsumeArgs(args, i + 1, StoredValue(p.explicit.val), extras)
             ELSE IF i < Len(args) /\ Classify(args, i + 1).kind = "A"
             THEN ConsumeArgs(args, i + 2, StoredValue(args[i + 1]), extras)
             ELSE ParserExit(2)

\* parser.parse_known_args(): the words are classified first (an ambiguous
\* abbreviation is an error there), then they are consumed.
ParseKnownArgs(args) ==
    IF \E i \in 1..Len(args) : Classify(args, i).kind = "error"
    THEN ParserExit(2)
    ELSE ConsumeArgs(args, 1, PyNone, <<>>)

RECURSIVE Join(_, _)
\* sep.join(words)
Join(words, sep) ==
    IF Len(words) = 0 THEN <<>>
    ELSE IF Len(words) = 1 THEN words[1]
    ELSE words[1] \o sep \o Join(Tail(words), sep)

CommandHead ==
    <<"d", "e", "e", "p", "s", "p", "e", "e", "d", " ",
      "-", "-", "n", "u", "m", "_", "g", "p", "u", "s", "=">>

\* f"deepspeed --num_gpus={num_gpus} {train_script} {' '.join(args)}"
CommandOf(gpus, script, extras) ==
    CommandHead \o Format(gpus) \o <<" ">> \o Format(script) \o <<" ">> \o Join(extras, <<" ">>)

----------------------------------------------------------------------------
(* The inputs of one run of the launcher *)

Quoted(chars) == <<"\"">> \o chars \o <<"\"">>

HostA == <<"a">>
HostB == <<"b">>
HostC == <<"c">>
HostH0 == <<"h", "0">>

\* Values of SM_NUM_GPUS: unset, "4", "08" and "x"
NumGpusValues == {EnvAbsent, EnvSet(<<"4">>), EnvSet(<<"0", "8">>), EnvSet(<<"x">>)}

\* Values of SM_HOSTS: unset, [], ["h0"], ["a", "b", "c"], ["a", "b", "a"],
\* [0] and the truncated document [
HostsValues ==
    { EnvAbsent,
      EnvSet(<<"[", "]">>),
      EnvSet(<<"[">> \o Quoted(HostH0) \o <<"]">>),
      EnvSet(<<"[">> \o Quoted(HostA) \o <<",", " ">> \o Quoted(HostB) \o <<",", " ">>
                 \o Quoted(HostC) \o <<"]">>),
      EnvSet(<<"[">> \o Quoted(HostA) \o <<",", " ">> \o Quoted(HostB) \o <<",", " ">>
                 \o Quoted(HostA) \o <<"]">>),
      EnvSet(<<"[", "0", "]">>),
      EnvSet(<<"[">>) }

\* Values of SM_CURRENT_HOST: unset, "a", "b" and "h0"
CurrentHostValues == {EnvAbsent, EnvSet(HostA), EnvSet(HostB), EnvSet(HostH0)}

Environs ==
    [SM_NUM_GPUS : NumGpusValues, SM_HOSTS : HostsValues, SM_CURRENT_HOST : CurrentHostValues]

\* Command-line words: --training_script, --training_script=t.py, the
\* abbreviation --train, the script t.py, the training program's option
\* --lr, a negative number -1.5, the separator --, -h and -hh
ArgWords ==
    { OptTrainingScript,
      OptTrainingScript \o <<"=", "t", ".", "p", "y">>,
      <<"-", "-", "t", "r", "a", "i", "n">>,
      <<"t", ".", "p", "y">>,
      <<"-", "-", "l", "r">>,
      <<"-", "1", ".", "5">>,
      <<"-", "-">>,
      OptHelpShort,
      <<"-", "h", "h">> }

RECURSIVE SeqsUpTo(_, _)
\* the sequences over S of length at most k
SeqsUpTo(S, k) ==
    IF k = 0 THEN {<<>>}
    ELSE LET shorter == SeqsUpTo(S, k - 1)
         IN  shorter \cup {Append(q, x) : q \in shorter, x \in S}

\* sys.argv[1:]
Argvs == SeqsUpTo(ArgWords, MaxArgs)

\* Exit statuses of the child: success and one failure
ChildCodes == {0, 1}

\* os.environ.get(name, default): the default is returned as it is
EnvGet(env, name, default) ==
    IF env[name].present THEN PyStr(env[name].val) ELSE default

----------------------------------------------------------------------------
(* The launcher, ds_launcher.py, as a state machine *)

VARIABLES
    environ,        \* os.environ, the three variables the launcher reads
    argv,           \* sys.argv[1:]
    pc,             \* where the launcher is
    num_gpus,       \* the locals of main()
    hosts,
    num_nodes,
    current_host,
    rank,
    train_script,
    args,
    command,
    child,          \* the process subprocess.run started: none, running, exited
    child_rc,       \* its exit status
    children,       \* how many child processes were started
    log,            \* what was passed to logger.info
    exit_status,    \* the exit status of the launcher, -1 while it runs
    steps           \* the steps taken, in order

\* the submitter's
VARIABLES
    s_pc,           \* where the submitter is
    role,           \* the ARN get_role returned, "" before
    sess,           \* the sagemaker.Session: created or not, its default bucket
    estimator,      \* the HuggingFace estimator: created or not, its settings
    job,            \* the training job: none, InProgress, Completed, Failed
    jobs,           \* how many training jobs were created
    s_raised,       \* the call that raised, "" when none did
    s_exit          \* the exit status of the submitter, -1 while it runs

launcher_vars ==
    <<environ, argv, pc, num_gpus, hosts, num_nodes, current_host, rank, train_script,
      args, command, child, child_rc, children, log, exit_status, steps>>

submitter_vars == <<s_pc, role, sess, estimator, job, jobs, s_raised, s_exit>>

vars == <<launcher_vars, submitter_vars>>

LauncherInit ==
    /\ environ \in Environs
    /\ argv \in Argvs
    /\ pc = "start"
    /\ num_gpus = Unset
    /\ hosts = Unset
    /\ num_nodes = Unset
    /\ current_host = Unset
    /\ rank = Unset
    /\ train_script = Unset
    /\ args = <<>>
    /\ command = <<>>
    /\ child = "none"
    /\ child_rc = 0
    /\ children = 0
    /\ log = <<>>
    /\ exit_status = -1
    /\ steps = <<>>

\* An exception nobody catches ends the interpreter with status 1.
Uncaught(step) ==
    /\ pc' = "error"
    /\ exit_status' = 1
    /\ steps' = steps \o <<step, "exit">>

\* Lines 31-34: num_gpus, hosts, num_nodes and current_host from the
\* environment.  int() and json.loads() may raise.
ReadEnv ==
    /\ pc = "start"
    /\ LET gpus == PyIntOf(EnvGet(environ, "SM_NUM_GPUS", PyInt(0)))
           hs == JsonLoads(EnvGet(environ, "SM_HOSTS", PyStr(<<"{", "}">>)).s)
       IN  IF ~gpus.ok
           THEN /\ Uncaught("read_env")
                /\ UNCHANGED <<num_gpus, hosts, num_nodes, current_host>>
           ELSE IF ~hs.ok
           THEN /\ Uncaught("read_env")
                /\ num_gpus' = gpus.val
                /\ UNCHANGED <<hosts, num_nodes, current_host>>
           ELSE /\ pc' = "env_read"
                /\ steps' = Append(steps, "read_env")
                /\ num_gpus' = gpus.val
                /\ hosts' = hs.val
                /\ num_nodes' = PyInt(Len(hs.val.l))
                /\ current_host' = EnvGet(environ, "SM_CURRENT_HOST", PyInt(0))
                /\ UNCHANGED exit_status
    /\ UNCHANGED <<submitter_vars, environ, argv, rank, train_script, args, command, child, child_rc,
                   children, log>>

\* Line 35: rank = hosts.index(current_host)
ComputeRank ==
    /\ pc = "env_read"
    /\ LET r == HostsIndex(hosts, current_host)
       IN  IF r.ok
           THEN /\ rank' = r.val
                /\ pc' = "ranked"
                /\ steps' = Append(steps, "compute_rank")
                /\ UNCHANGED exit_status
           ELSE /\ Uncaught("compute_rank")
                /\ UNCHANGED rank
    /\ UNCHANGED <<submitter_vars, environ, argv, num_gpus, hosts, num_nodes, current_host, train_script,
                   args, command, child, child_rc, children, log>>

\* Line 44 and parse_args, lines 12-26.  parser.exit() raises SystemExit,
\* which ends the interpreter with the status it carries.
ParseArgs ==
    /\ pc = "ranked"
    /\ LET p == ParseKnownArgs(argv)
       IN  IF p.status = "ok"
           THEN /\ train_script' = p.script
                /\ args' = p.extras
                /\ pc' = "parsed"
                /\ steps' = Append(steps, "parse_args")
                /\ UNCHANGED exit_status
           ELSE /\ pc' = "exited"
                /\ exit_status' = p.code
                /\ steps' = steps \o <<"parse_args", "exit">>
                /\ UNCHANGED <<train_script, args>>
    /\ UNCHANGED <<submitter_vars, environ, argv, num_gpus, hosts, num_nodes, current_host, rank, command,
                   child, child_rc, children, log>>

\* Line 45
BuildCommand ==
    /\ pc = "parsed"
    /\ command' = CommandOf(num_gpus, train_script, args)
    /\ pc' = "built"
    /\ steps' = Append(steps, "build_command")
    /\ UNCHANGED <<submitter_vars, environ, argv, num_gpus, hosts, num_nodes, current_host, rank,
                   train_script, args, child, child_rc, children, log, exit_status>>

\* Faulty variant of Spawn: the child is started and not waited for (Popen).
SpawnDetached ==
    /\ pc = "built"
    /\ child' = "running"
    /\ children' = children + 1
    /\ pc' = "returned"
    /\ steps' = Append(steps, "spawn")
    /\ UNCHANGED <<submitter_vars, environ, argv, num_gpus, hosts, num_nodes, current_host,
                   rank, train_script, args, command, child_rc, log, exit_status>>

\* Lines 48 and 54: subprocess.run(command, shell=True) starts the shell.
Spawn ==
    /\ pc = "built"
    /\ child' = "running"
    /\ children' = children + 1
    /\ pc' = "waiting"
    /\ steps' = Append(steps, "spawn")
    /\ UNCHANGED <<submitter_vars, environ, argv, num_gpus, hosts, num_nodes, current_host, rank,
                   train_script, args, command, child_rc, log, exit_status>>

\* Lines 54-56: subprocess.run raises (the shell cannot be started); the
\* exception is caught and passed to logger.info, deepspeed_launch returns.
SpawnRaises ==
    /\ pc = "built"
    /\ log' = Append(log, "OSError")
    /\ pc' = "returned"
    /\ steps' = Append(steps, "spawn")
    /\ UNCHANGED <<submitter_vars, environ, argv, num_gpus, hosts, num_nodes, current_host, rank,
                   train_script, args, command, child, child_rc, children, exit_status>>

\* The child process ends, with any status.  (It need not end.)
ChildExits ==
    /\ child = "running"
    /\ \E rc \in ChildCodes : child_rc' = rc
    /\ child' = "exited"
    /\ UNCHANGED <<submitter_vars, environ, argv, pc, num_gpus, hosts, num_nodes, current_host, rank,
                   train_script, args, command, children, log, exit_status, steps>>

\* Faulty variant of WaitReturns: only a child that succeeded is reaped.
WaitReturnsOnSuccess ==
    /\ pc = "waiting"
    /\ child = "exited"
    /\ child_rc = 0
    /\ pc' = "returned"
    /\ steps' = Append(steps, "wait")
    /\ UNCHANGED <<submitter_vars, environ, argv, num_gpus, hosts, num_nodes, current_host,
                   rank, train_script, args, command, child, child_rc, children, log,
                   exit_status>>

\* Line 54: subprocess.run returns once the child has ended.  There is no
\* check=True and the CompletedProcess is dropped: nothing is raised or
\* logged for any exit status.
WaitReturns ==
    /\ pc = "waiting"
    /\ child = "exited"
    /\ pc' = "returned"
    /\ steps' = Append(steps, "wait")
    /\ UNCHANGED <<submitter_vars, environ, argv, num_gpus, hosts, num_nodes, current_host, rank,
                   train_script, args, command, child, child_rc, children, log,
                   exit_status>>

\* Faulty variant of MainReturns: the launcher ends with the status of its child.
MainReturnsChildStatus ==
    /\ pc = "returned"
    /\ pc' = "done"
    /\ exit_status' = child_rc
    /\ steps' = Append(steps, "exit")
    /\ UNCHANGED <<submitter_vars, environ, argv, num_gpus, hosts, num_nodes, current_host,
                   rank, train_script, args, command, child, child_rc, children, log>>

\* Lines 59-60: main() returns and the interpreter ends with status 0.
MainReturns ==
    /\ pc = "returned"
    /\ pc' = "done"
    /\ exit_status' = 0
    /\ steps' = Append(steps, "exit")
    /\ UNCHANGED <<submitter_vars, environ, argv, num_gpus, hosts, num_nodes, current_host, rank,
                   train_script, args, command, child, child_rc, children, log>>

----------------------------------------------------------------------------
(* The submitter, sagemaker_launch.py, as a state machine.  What the       *)
(* platform answers (the role's ARN, the default bucket, whether and when  *)
(* a call raises, how the job ends) is drawn from small sets.  The script  *)
(* shows only that fit() is called, once and outside any try; that the     *)
(* call waits for the job is the platform client's contract, section 4.1   *)
(* of the specification ("the call blocks until completion or error").     *)

RoleArns == {"arn:aws:iam::111111111111:role/sagemaker_execution_role",
             "arn:aws:iam::222222222222:role/sagemaker_execution_role",
             "arn:aws:iam::333333333333:role/sagemaker_execution_role"}

Buckets == {"sagemaker-us-east-1-111111111111",
            "sagemaker-us-east-1-222222222222",
            "sagemaker-us-east-1-333333333333"}

NoSession == [created |-> FALSE, region |-> "", bucket |-> ""]
NoEstimator ==
    [created |-> FALSE, entry_point |-> "", instance_type |-> "", instance_count |-> 0,
     role |-> ""]

SubmitterInit ==
    /\ s_pc = "start"
    /\ role = ""
    /\ sess = NoSession
    /\ estimator = NoEstimator
    /\ job = "none"
    /\ jobs = 0
    /\ s_raised = ""
    /\ s_exit = -1

\* Faulty variant of SubmitterRaises: the exception is caught and the script
\* goes on from where it was, to try the call again.
SubmitterRetries(call) ==
    /\ s_raised' = call
    /\ UNCHANGED <<s_pc, s_exit>>

\* No call of the script is inside a try: what a call raises ends the
\* interpreter with status 1.
SubmitterRaises(call) ==
    /\ s_raised' = call
    /\ s_pc' = "error"
    /\ s_exit' = 1

\* Lines 10-11: the ARN of the role sagemaker_execution_role
GetRole ==
    /\ s_pc = "start"
    /\ \/ /\ \E arn \in RoleArns : role' = arn
          /\ s_pc' = "role_resolved"
          /\ UNCHANGED <<s_raised, s_exit>>
       \/ /\ SubmitterRaises("get_role")
          /\ UNCHANGED role
    /\ UNCHANGED <<launcher_vars, sess, estimator, job, jobs>>

\* Line 12: sess = sagemaker.Session(), in the region line 4 sets
CreateSession ==
    /\ s_pc = "role_resolved"
    /\ \/ /\ sess' = [created |-> TRUE, region |-> "us-east-1", bucket |-> ""]
          /\ s_pc' = "session_created"
          /\ UNCHANGED <<s_raised, s_exit>>
       \/ /\ SubmitterRaises("Session")
          /\ UNCHANGED sess
    /\ UNCHANGED <<launcher_vars, role, estimator, job, jobs>>

\* Lines 14-16: sess.default_bucket() asks the platform for the bucket (and
\* keeps it in the session); the three values are printed.
ResolveBucket ==
    /\ s_pc = "session_created"
    /\ \/ /\ \E b \in Buckets : sess' = [sess EXCEPT !.bucket = b]
          /\ s_pc' = "info_printed"
          /\ UNCHANGED <<s_raised, s_exit>>
       \/ /\ SubmitterRaises("default_bucket")
          /\ UNCHANGED sess
    /\ UNCHANGED <<launcher_vars, role, estimator, job, jobs>>

\* Lines 19-41: the hyperparameters and the estimator.  HuggingFace(...) is
\* outside any try, like every other call.
CreateEstimator ==
    /\ s_pc = "info_printed"
    /\ \/ /\ estimator' = [created |-> TRUE, entry_point |-> "ds_launcher.py",
                             instance_type |-> "ml.p3.2xlarge", instance_count |-> 1,
                             role |-> role]
          /\ s_pc' = "estimator_created"
          /\ UNCHANGED <<s_raised, s_exit>>
       \/ /\ SubmitterRaises("HuggingFace")
          /\ UNCHANGED estimator
    /\ UNCHANGED <<launcher_vars, role, sess, job, jobs>>

\* Line 43: fit() asks the platform to create the training job, which the
\* platform may refuse; once the job is created the call waits for it.
Fit ==
    /\ s_pc = "estimator_created"
    /\ \/ /\ job' = "InProgress"
          /\ jobs' = jobs + 1
          /\ s_pc' = "fitting"
          /\ UNCHANGED <<s_raised, s_exit>>
       \/ /\ SubmitterRaises("fit")
          /\ UNCHANGED <<job, jobs>>
    /\ UNCHANGED <<launcher_vars, role, sess, estimator>>

\* The platform ends the job: it finishes or it fails.  (It need not end,
\* and it ends or not whether the script still runs or not.)
JobEnds ==
    /\ job = "InProgress"
    /\ \E status \in {"Completed", "Failed"} : job' = status
    /\ UNCHANGED <<launcher_vars, s_pc, role, sess, estimator, jobs, s_raised, s_exit>>

\* Line 43: the platform client raises while fit() waits (a request to the
\* platform fails), at any moment of the call: the job it created may be
\* in progress still, or have ended without fit() having returned yet.
FitWaitRaises ==
    /\ s_pc = "fitting"
    /\ SubmitterRaises("wait")
    /\ UNCHANGED <<launcher_vars, role, sess, estimator, job, jobs>>

\* Line 43: the job has ended and fit() stops waiting: it returns for a job
\* that finished, and the script ends; for a job that failed the error is
\* surfaced by the platform client.
FitReturns ==
    /\ s_pc = "fitting"
    /\ job # "InProgress"
    /\ IF job = "Completed"
       THEN /\ s_pc' = "done"
            /\ s_exit' = 0
            /\ UNCHANGED s_raised
       ELSE SubmitterRaises("job")
    /\ UNCHANGED <<launcher_vars, role, sess, estimator, job, jobs>>

----------------------------------------------------------------------------
(* Specifications *)

\* One run of the launcher, on any of the inputs.
Init == LauncherInit /\ SubmitterInit

Next ==
    \/ ReadEnv
    \/ ComputeRank
    \/ ParseArgs
    \/ BuildCommand
    \/ Spawn
    \/ SpawnRaises
    \/ ChildExits
    \/ WaitReturns
    \/ MainReturns

Spec == Init /\ [][Next]_vars

\* The interpreter keeps running the launcher: subprocess.run returns when
\* it can, and so does main().  Nothing makes the child end.
FairSpec == Spec /\ WF_vars(WaitReturns) /\ WF_vars(MainReturns)

\* One run of the submitter.
SubmitInit ==
    /\ environ = [SM_NUM_GPUS |-> EnvAbsent, SM_HOSTS |-> EnvAbsent,
                  SM_CURRENT_HOST |-> EnvAbsent]
    /\ argv = <<>>
    /\ LauncherInit
    /\ SubmitterInit

SubmitNext ==
    \/ GetRole
    \/ CreateSession
    \/ ResolveBucket
    \/ CreateEstimator
    \/ Fit
    \/ JobEnds
    \/ FitWaitRaises
    \/ FitReturns

SubmitSpec == SubmitInit /\ [][SubmitNext]_vars

----------------------------------------------------------------------------
(* Properties *)

\* needle in haystack, for strings
Contains(haystack, needle) ==
    \E i \in 0..(Len(haystack) - Len(needle)) :
        SubSeq(haystack, i + 1, i + Len(needle)) = needle

Terminated == pc \in {"done", "error", "exited"}

\* x is an item of the list hs
Occurs(x, hs) == hs.t = "list" /\ \E i \in 1..Len(hs.l) : hs.l[i] = x

\* the least position (from one) at which x is in items
FirstPosition(x, items) ==
    CHOOSE i \in 1..Len(items) : items[i] = x /\ \A j \in 1..(i - 1) : items[j] # x

AllAbsent ==
    /\ ~environ.SM_NUM_GPUS.present
    /\ ~environ.SM_HOSTS.present
    /\ ~environ.SM_CURRENT_HOST.present

\* C1: whenever the current host occurs in the host list, the rank that line
\* 35 computes is the zero-based position of its first occurrence, and a
\* rank is computed only then.
C1_RankIsFirstPosition ==
    /\ rank # Unset => Occurs(current_host, hosts)
    /\ (Occurs(current_host, hosts) /\ pc # "env_read")
           => rank = PyInt(FirstPosition(current_host, hosts.l) - 1)

\* Host list ["a", "b", "c"], current host "b": the rank is 1.
C1_Witness ==
    /\ hosts = PyList(<<PyStr(HostA), PyStr(HostB), PyStr(HostC)>>)
    /\ current_host = PyStr(HostB)
    /\ rank = PyInt(1)

\* C2: when the current host is not in the host list (SM_CURRENT_HOST unset
\* and defaulting to 0 included), the rank lookup ends the launcher with an
\* uncaught error: no rank, no parsed arguments, no command, no child.
C2_AbsentHostFails ==
    (hosts # Unset /\ ~Occurs(current_host, hosts) /\ pc # "env_read")
        => /\ pc = "error"
           /\ exit_status = 1
           /\ rank = Unset
           /\ train_script = Unset
           /\ command = <<>>
           /\ children = 0
           /\ child = "none"

\* SM_HOSTS = ["h0"] with SM_CURRENT_HOST unset: the lookup of 0 has failed.
C2_Witness ==
    /\ pc = "error"
    /\ hosts = PyList(<<PyStr(HostH0)>>)
    /\ ~environ.SM_CURRENT_HOST.present
    /\ current_host = PyInt(0)

\* C3: every command the launcher builds embeds --num_gpus=<GPU count> and
\* the rank computed for the node.
C3_CommandEmbedsGpusAndRank ==
    pc \in {"built", "waiting", "returned", "done"}
        => /\ Contains(command, SubSeq(CommandHead, 11, Len(CommandHead)) \o Format(num_gpus))
           /\ Contains(command, Format(rank))

RECURSIVE OtherArguments(_)
\* The command line without the option --training_script and its value
\* (no word after a "--" is an option).
OtherArguments(words) ==
    IF Len(words) = 0 THEN <<>>
    ELSE IF words[1] = <<"-", "-">> THEN words
    ELSE IF words[1] = OptTrainingScript
    THEN OtherArguments(SubSeq(words, 3, Len(words)))
    ELSE IF StartsWith(words[1], Append(OptTrainingScript, "="))
    THEN OtherArguments(Tail(words))
    ELSE <<words[1]>> \o OtherArguments(Tail(words))

\* C4: every command the launcher builds ends, after the training script
\* path, with all the arguments other than --training_script and its value,
\* verbatim and in their order on the command line.
C4_OtherArgumentsForwarded ==
    pc \in {"built", "waiting", "returned", "done"}
        => /\ args = OtherArguments(argv)
           /\ command = CommandHead \o Format(num_gpus) \o <<" ">> \o Format(train_script)
                            \o <<" ">> \o Join(OtherArguments(argv), <<" ">>)

\* C5: once subprocess.run has been called, the launcher ends with status 0
\* whatever became of the child: exit 0, exit non-zero, or an exception.
C5_ExitStatusIgnoresChild ==
    (Terminated /\ \E i \in 1..Len(steps) : steps[i] = "spawn")
        => pc = "done" /\ exit_status = 0

\* The child failed with status 1 and the launcher has ended.
C5_Witness ==
    /\ pc = "done"
    /\ child = "exited"
    /\ child_rc = 1

\* C6 as stated: with the three variables absent the launcher does not end
\* in an error, and the command it builds has --num_gpus=0.
C6_DefaultsRunDegenerateCommand ==
    AllAbsent
        => /\ pc # "error"
           /\ Terminated => Contains(command, SubSeq(CommandHead, 11, Len(CommandHead)) \o <<"0">>)

\* C6 as amended: with the three variables absent, the values default to 0,
\* the empty JSON object (no node) and 0, and the launcher ends with an
\* uncaught error at the rank lookup; no command is built, no child started.
C6_DefaultsFailAtRankLookup ==
    (AllAbsent /\ pc # "start")
        => /\ num_gpus = PyInt(0)
           /\ hosts = PyDict
           /\ num_nodes = PyInt(0)
           /\ current_host = PyInt(0)
           /\ pc \in {"env_read", "error"}
           /\ pc = "error" => /\ exit_status = 1
                              /\ steps = <<"read_env", "compute_rank", "exit">>
                              /\ rank = Unset
                              /\ command = <<>>
                              /\ children = 0

C6_Witness ==
    /\ AllAbsent
    /\ pc = "error"
    /\ hosts = PyDict

\* C7: every failure of the child, a non-zero exit status as well as an
\* exception raised by subprocess.run, has an entry in the log by the time
\* deepspeed_launch returns.
C7_ChildFailureLogged ==
    (pc \in {"returned", "done"} /\ (child = "none" \/ child_rc # 0))
        => Len(log) > 0

\* C8 as stated: the submitter creates at most one training job, and only
\* with the role resolved and the session created; a call that raises is
\* not handled (the script is then in its error state, with status 1); and
\* the script has not ended, one way or the other, while the job it
\* submitted is in progress.
C8_SubmitterBlocksAndFailsFast ==
    /\ jobs <= 1
    /\ jobs = 1 <=> job # "none"
    /\ job # "none" => role \in RoleArns /\ sess.created
    /\ s_raised # "" <=> s_pc = "error"
    /\ s_pc = "error" => s_exit = 1
    /\ s_pc \in {"done", "error"} => job # "InProgress"

\* the calls that come before the job exists
CallsBeforeJob == {"get_role", "Session", "default_bucket", "HuggingFace", "fit"}

\* C8 as amended: at most one training job, created only with the role
\* resolved and the session created; a call that raises is not handled (the
\* script is then in its error state, with status 1, and creates no job
\* afterwards); the script ends with success only when the job has ended;
\* it is in its error state with the job in progress only when the
\* platform client raised while waiting for the job.
C8_SubmitterFailsFastAndWaits ==
    /\ jobs <= 1
    /\ jobs = 1 <=> job # "none"
    /\ job # "none" => role \in RoleArns /\ sess.created /\ estimator.created
    /\ s_raised # "" <=> s_pc = "error"
    /\ s_pc = "error" <=> s_exit = 1
    /\ s_pc = "done" <=> s_exit = 0
    /\ s_raised \in CallsBeforeJob => job = "none"
    /\ s_pc = "done" => job \in {"Completed", "Failed"}
    /\ (s_pc = "error" /\ job = "InProgress") => s_raised = "wait"
    /\ s_raised = "job" => job = "Failed"

\* The job was submitted, the script waited for it, and it has ended.
C8_Witness ==
    /\ s_pc = "done"
    /\ jobs = 1
    /\ job = "Completed"
    /\ s_exit = 0

WorkSteps == <<"read_env", "compute_rank", "parse_args", "build_command", "spawn", "wait">>

\* the steps taken before the exit
StepsBeforeExit ==
    IF Len(steps) > 0 /\ steps[Len(steps)] = "exit"
    THEN SubSeq(steps, 1, Len(steps) - 1)
    ELSE steps

\* the rank lookup and the argument parsing have succeeded
RankedAndParsed == rank # Unset /\ train_script # Unset

\* C9 as stated: the steps are taken in the order read environment, compute
\* rank, parse arguments, build command, spawn child, wait, exit; at most
\* one child is spawned, and exactly one in a run in which the rank lookup
\* and the argument parsing succeeded; the launcher has not ended while the
\* child runs.
C9_ExactlyOneChild ==
    /\ Len(StepsBeforeExit) <= Len(WorkSteps)
    /\ StepsBeforeExit = SubSeq(WorkSteps, 1, Len(StepsBeforeExit))
    /\ children <= 1
    /\ (RankedAndParsed /\ Terminated) => children = 1
    /\ pc \in {"returned", "done"} => child # "running"

\* C9 as amended: the steps are taken in the order read environment,
\* compute rank, parse arguments, build command, spawn, wait, exit, none
\* twice, and none skipped but the wait when subprocess.run itself raised;
\* subprocess.run is called at most once, and exactly once when the rank
\* lookup and the parsing succeed; the call starts exactly one child,
\* unless it raises: then there is no child, the exception is in the log
\* and there is no wait; the launcher has not ended while a child runs.
C9_LinearSinglePass ==
    /\ Len(StepsBeforeExit) <= Len(WorkSteps)
    /\ StepsBeforeExit = SubSeq(WorkSteps, 1, Len(StepsBeforeExit))
    /\ Terminated <=> (Len(steps) > 0 /\ steps[Len(steps)] = "exit")
    /\ children <= 1
    /\ children = 1 <=> child # "none"
    /\ Cardinality({i \in 1..Len(steps) : steps[i] = "spawn"}) <= 1
    /\ pc \in {"waiting", "returned", "done"}
           => /\ RankedAndParsed
              /\ Cardinality({i \in 1..Len(steps) : steps[i] = "spawn"}) = 1
              /\ \/ children = 1 /\ log = <<>>
                 \/ /\ children = 0
                    /\ log = <<"OSError">>
                    /\ \A i \in 1..Len(steps) : steps[i] # "wait"
    /\ pc \notin {"waiting", "returned", "done"} => children = 0 /\ log = <<>>
    /\ (RankedAndParsed /\ Terminated) => pc = "done"
    /\ pc = "done" /\ children = 1 => steps = Append(WorkSteps, "exit")
    /\ pc \in {"returned", "done"} => child # "running"
    /\ child = "exited" /\ pc # "waiting"
           => \E i \in 1..Len(steps) : steps[i] = "wait"

\* A complete run: all seven steps, one child.
C9_Witness ==
    /\ steps = Append(WorkSteps, "exit")
    /\ children = 1
    /\ pc = "done"

\* C10: while the child runs the launcher waits and has no exit status
\* (there is no timeout), and, the launcher's steps being taken whenever
\* they can, once the child has exited the launcher exits.
C10_ExitFollowsChild ==
    /\ [](child = "running" => pc = "waiting" /\ exit_status = -1)
    /\ (child = "exited") ~> (pc = "done")

\* The child has exited with status 0 and the launcher has exited after it.
C10_Witness ==
    /\ child = "exited"
    /\ child_rc = 0
    /\ pc = "done"
    /\ steps[Len(steps) - 1] = "wait"

====
